---- MODULE Spec2Model ----
(***************************************************************************)
(* ClimateDataLoader (src/data_loader.py): the three loading pipelines and *)
(* get_all_data.                                                           *)
(*                                                                         *)
(* Text is a sequence of one-character strings.  A Python float is an      *)
(* exact decimal [kind, m, e] standing for m * 10^e (kind "finite"), or    *)
(* an infinity (m is its sign) or a NaN; binary rounding and the overflow  *)
(* of huge literals are not modelled.  Synthesized values are decimals in  *)
(* thousandths (e = -3), the derived loss column in ten-thousandths.       *)
(* numpy's global generator is a small additive congruential generator: a  *)
(* deterministic function of its state, whose increment gen is fixed for   *)
(* a run and chosen in Init, since the real bit stream is not modelled.    *)
(***************************************************************************)
EXTENDS Integers, Sequences, FiniteSets, TLC

VARIABLES
    pc,               \* position of the caller in get_all_data / a direct call
    rng,              \* state of numpy's global generator (np.random)
    gen,              \* which deterministic generator np.random is
    rng_at_call,      \* generator state when the operation was called
    fetched,          \* outcome of the last requests.get
    provenance,       \* which return statement each pipeline left through
    temperature_data,
    co2_data,
    extreme_data,
    result,           \* what get_all_data returned
    raised,           \* exception that reached the caller, "none" if none
    stdout            \* what has been printed, in order

vars == <<pc, rng, gen, rng_at_call, fetched, provenance, temperature_data,
          co2_data, extreme_data, result, raised, stdout>>

-----------------------------------------------------------------------------
(* Bounds of the model                                                     *)

MaxTempRows == 1      \* rows of a temperature body in get_all_data runs
MaxRows == 2          \* rows of a CO2 body in get_all_data runs
MaxParseRows == 4     \* rows of a temperature body in direct calls
RngMod == 16          \* number of generator states
NumEntropy == 2       \* initial (unseeded) generator states tried
NoiseLevels == 5      \* distinct standard-normal draws: -2 .. 2

-----------------------------------------------------------------------------
(* Evaluation helpers                                                      *)

\* F applied to the value of e, with e evaluated once
Bind(e, F(_)) == CHOOSE r \in { F(v) : v \in {e} } : TRUE

\* a function over 1..n as an explicit list
AsList(f) == SubSeq(f, 1, Len(f))

-----------------------------------------------------------------------------
(* Python str operations                                                   *)

Digits == {"0", "1", "2", "3", "4", "5", "6", "7", "8", "9"}
DigitSeq == <<"0", "1", "2", "3", "4", "5", "6", "7", "8", "9">>
DigitVal(c) == (CHOOSE i \in 1..10 : DigitSeq[i] = c) - 1

IsSpace(c) == c \in {" ", "\t", "\r", "\n"}

RECURSIVE LStrip(_)
LStrip(s) == IF s # <<>> /\ IsSpace(Head(s)) THEN LStrip(Tail(s)) ELSE s

RECURSIVE RStrip(_)
RStrip(s) ==
    IF s # <<>> /\ IsSpace(s[Len(s)]) THEN RStrip(SubSeq(s, 1, Len(s) - 1)) ELSE s

\* str.strip()
Strip(s) == RStrip(LStrip(s))

\* str.startswith(prefix)
StartsWith(s, prefix) ==
    /\ Len(s) >= Len(prefix)
    /\ SubSeq(s, 1, Len(prefix)) = prefix

\* the k-th separator position among at (0 before the first piece, len + 1
\* after the last)
Cut(at, len, k) ==
    IF k = 0 THEN 0
    ELSE IF k = Cardinality(at) + 1 THEN len + 1
    ELSE CHOOSE p \in at : Cardinality({q \in at : q < p}) = k - 1

\* str.split(sep): the pieces between the separators, always at least one
Split(s, sep) ==
    Bind({i \in 1..Len(s) : s[i] = sep},
         LAMBDA at : AsList([k \in 1..(Cardinality(at) + 1) |->
                                SubSeq(s, Cut(at, Len(s), k - 1) + 1,
                                       Cut(at, Len(s), k) - 1)]))

AllDigits(s) == \A i \in 1..Len(s) : s[i] \in Digits

RECURSIVE NatValue(_)
NatValue(s) ==
    IF s = <<>> THEN 0
    ELSE 10 * NatValue(SubSeq(s, 1, Len(s) - 1)) + DigitVal(s[Len(s)])

RECURSIVE Pow10(_)
Pow10(n) == IF n <= 0 THEN 1 ELSE 10 * Pow10(n - 1)

IsSigned(t) == t # <<>> /\ Head(t) \in {"+", "-"}
Unsigned(t) == IF IsSigned(t) THEN Tail(t) ELSE t
SignOf(t) == IF IsSigned(t) /\ Head(t) = "-" THEN -1 ELSE 1

ValueError == [exc |-> "ValueError"]

\* int(str): optional surrounding whitespace, optional sign, one or more digits
ParseInt(s) ==
    Bind(Strip(s), LAMBDA t :
        IF Unsigned(t) # <<>> /\ AllDigits(Unsigned(t))
        THEN [exc |-> "none", value |-> SignOf(t) * NatValue(Unsigned(t))]
        ELSE ValueError)

Finite(m, e) == [kind |-> "finite", m |-> m, e |-> e]
Infinity(sign) == [kind |-> "inf", m |-> sign, e |-> 0]
NaN == [kind |-> "nan", m |-> 0, e |-> 0]

\* the exponent part of a float literal: optional sign, one or more digits
ParseExponent(x) ==
    IF Unsigned(x) # <<>> /\ AllDigits(Unsigned(x))
    THEN [exc |-> "none", value |-> SignOf(x) * NatValue(Unsigned(x))]
    ELSE ValueError

\* the mantissa of a float literal: digits [. digits], at least one digit
ParseMantissa(x) ==
    Bind(Split(x, "."), LAMBDA p :
        LET ip == p[1]
            fp == IF Len(p) = 2 THEN p[2] ELSE <<>>
        IN  IF Len(p) <= 2 /\ AllDigits(ip) /\ AllDigits(fp) /\ Len(ip) + Len(fp) >= 1
            THEN [exc |-> "none", m |-> NatValue(ip \o fp), e |-> -Len(fp)]
            ELSE ValueError)

\* a decimal literal with an optional exponent, q its pieces around "e"
ParseDecimal(sign, q) ==
    IF Len(q) > 2 THEN ValueError
    ELSE Bind(ParseMantissa(q[1]), LAMBDA mant :
         Bind(IF Len(q) = 2 THEN ParseExponent(q[2]) ELSE [exc |-> "none", value |-> 0],
              LAMBDA expo :
                 IF mant.exc = "none" /\ expo.exc = "none"
                 THEN [exc |-> "none",
                       value |-> Finite(sign * mant.m, mant.e + expo.value)]
                 ELSE ValueError))

\* float(str): optional whitespace and sign, then inf, infinity, nan or a
\* decimal literal with an optional exponent
ParseFloat(s) ==
    Bind(Strip(s), LAMBDA t :
        IF Unsigned(t) \in {<<"i", "n", "f">>, <<"i", "n", "f", "i", "n", "i", "t", "y">>}
        THEN [exc |-> "none", value |-> Infinity(SignOf(t))]
        ELSE IF Unsigned(t) = <<"n", "a", "n">>
        THEN [exc |-> "none", value |-> NaN]
        ELSE Bind(Split(Unsigned(t), "e"), LAMBDA q : ParseDecimal(SignOf(t), q)))

\* int(float): truncation toward zero; OverflowError on an infinity,
\* ValueError on a NaN
TruncToInt(x) ==
    IF x.kind = "inf" THEN [exc |-> "OverflowError"]
    ELSE IF x.kind = "nan" THEN ValueError
    ELSE IF x.e >= 0 THEN [exc |-> "none", value |-> x.m * Pow10(x.e)]
    ELSE IF x.m >= 0 THEN [exc |-> "none", value |-> x.m \div Pow10(-x.e)]
    ELSE [exc |-> "none", value |-> -((-x.m) \div Pow10(-x.e))]

\* float * 0.01
TimesHundredth(x) == IF x.kind = "finite" THEN Finite(x.m, x.e - 2) ELSE x

\* float * 0.5
TimesHalf(x) == IF x.kind = "finite" THEN Finite(5 * x.m, x.e - 1) ELSE x

\* float > 0 (False for a NaN)
IsPositive(x) == x.kind # "nan" /\ x.m > 0

\* a value in thousandths as a float
Milli(v) == Finite(v, -3)

-----------------------------------------------------------------------------
(* numpy: arange and the global generator                                  *)

\* an arange that takes its end in
ArangeInclusive(a, b) == AsList([i \in 1..(b - a + 1) |-> a + i - 1])

\* np.arange(a, b)
Arange(a, b) == AsList([i \in 1..(b - a) |-> a + i - 1])

\* np.random.seed(n)
Seed(n) == n % RngMod

\* the standard-normal draw a state yields, in whole standard deviations
StandardNormal(s) == (s % NoiseLevels) - (NoiseLevels \div 2)

\* the generator state after n draws from state s: each draw adds g
AfterDraws(g, s, n) == (s + n * g) % RngMod

\* np.random.normal(0, sigma, n) from state s: the n draws, in order
Normal(g, s, sigma, n) ==
    AsList([i \in 1..n |-> sigma * StandardNormal(AfterDraws(g, s, i))])

Generators == {5, 6}

-----------------------------------------------------------------------------
(* Temperature synthesis, src/data_loader.py 50-78; values in thousandths  *)

temp_first_year == 1880
temp_end_year == 2024
era_boundary == 1950
temp_seed == 42
base_temp == 14000
early_slope == 3
early_sigma == 150
recent_slope == 15
recent_offset == 300
recent_sigma == 100

temp_years == Arange(temp_first_year, temp_end_year)
early_years == SelectSeq(temp_years, LAMBDA y : y <= era_boundary)
recent_years == SelectSeq(temp_years, LAMBDA y : y > era_boundary)

early_warming == [i \in 1..Len(early_years) |-> early_slope * (early_years[i] - temp_first_year)]
early_noise(g) == Normal(g, Seed(temp_seed), early_sigma, Len(early_years))

recent_warming ==
    [i \in 1..Len(recent_years) |-> recent_slope * (recent_years[i] - era_boundary) + recent_offset]
recent_noise(g) ==
    Normal(g, AfterDraws(g, Seed(temp_seed), Len(early_years)), recent_sigma,
           Len(recent_years))

early_temps(g) ==
    Bind(early_noise(g), LAMBDA en :
        AsList([i \in 1..Len(early_years) |-> base_temp + early_warming[i] + en[i]]))

\* the shift a slip would leave: the early series' last value is added but
\* the recent trend's first value is not taken out
recent_temps_unanchored(g) ==
    Bind(early_temps(g), LAMBDA early :
    Bind(recent_noise(g), LAMBDA rn :
        AsList([i \in 1..Len(recent_years) |->
                   base_temp + recent_warming[i] + rn[i] + early[Len(early)] - base_temp])))

recent_temps(g) ==
    Bind(early_temps(g), LAMBDA early :
    Bind(recent_noise(g), LAMBDA rn :
        AsList([i \in 1..Len(recent_years) |->
                   base_temp + recent_warming[i] + rn[i] + early[Len(early)]
                   - (base_temp + recent_warming[1])])))

SynthesizeTemperature(g) ==
    Bind(early_temps(g) \o recent_temps(g), LAMBDA temperatures :
        [frame |-> [Year |-> temp_years,
                    Temperature |->
                        AsList([i \in 1..Len(temperatures) |-> Milli(temperatures[i])]),
                    Temperature_Anomaly |->
                        AsList([i \in 1..Len(temperatures) |->
                                   Milli(temperatures[i] - base_temp)])],
         rng |-> AfterDraws(g, Seed(temp_seed), Len(early_years) + Len(recent_years))])

-----------------------------------------------------------------------------
(* CO2 synthesis, src/data_loader.py 114-128; values in thousandths        *)

co2_first_year == 1958
co2_end_year == 2024
co2_seed == 123
co2_base == 315000
co2_linear == 1500
co2_quadratic == 20
co2_damping == 10
co2_sigma == 500

co2_years == Arange(co2_first_year, co2_end_year)

co2_growth ==
    [i \in 1..Len(co2_years) |->
        co2_linear * (co2_years[i] - co2_first_year)
        + co2_quadratic * (co2_years[i] - co2_first_year) * (co2_years[i] - co2_first_year)]

SynthesizeCO2(g) ==
    Bind(Normal(g, Seed(co2_seed), co2_sigma, Len(co2_years)), LAMBDA co2_noise :
        [frame |-> [Year |-> co2_years,
                    CO2_ppm |->
                        AsList([i \in 1..Len(co2_years) |->
                                   Milli(co2_base + (co2_growth[i] \div co2_damping)
                                         + co2_noise[i])])],
         rng |-> AfterDraws(g, Seed(co2_seed), Len(co2_years))])

-----------------------------------------------------------------------------
(* Extreme events, src/data_loader.py 130-145; counts in thousandths       *)

events_first_year == 1980
events_end_year == 2023
base_events == 200000
event_slope == 80
event_sigma == 15000

events_years == Arange(events_first_year, events_end_year)

\* the generator is not seeded here: the draws continue from state s
events_count(g, s) ==
    Bind(Normal(g, s, event_sigma, Len(events_years)), LAMBDA event_noise :
        AsList([i \in 1..Len(events_years) |->
                   base_events + event_slope * (events_years[i] - events_first_year)
                   + event_noise[i]]))

\* a loss column computed from counts drawn again instead of from the counts
\* of the table
economic_loss_independent(counts, g, s) ==
    Bind(events_count(g, AfterDraws(g, s, Len(events_years))), LAMBDA again :
        AsList([i \in 1..Len(again) |-> TimesHalf(Milli(again[i]))]))

\* events_count * 0.5
economic_loss(counts, g, s) ==
    AsList([i \in 1..Len(counts) |-> TimesHalf(Milli(counts[i]))])

LoadExtremeEventsData(g, s) ==
    Bind(events_count(g, s), LAMBDA counts :
        [exc |-> "none",
         frame |-> [Year |-> events_years,
                    Extreme_Events |-> AsList([i \in 1..Len(counts) |-> Milli(counts[i])]),
                    Economic_Loss_Billions |-> economic_loss(counts, g, s)],
         path |-> "synthetic",
         printed |-> <<>>,
         rng |-> AfterDraws(g, s, Len(events_years))])

-----------------------------------------------------------------------------
(* The fetch and the responses tried                                       *)

TempLines ==
    { <<"Y", "e", "a", "r", ",", "J">>,          \* the header row
      <<" ">>,                                   \* a blank row
      <<"2", ",", "x">>,                         \* a non-numeric field
      <<"7">>,                                   \* a single field
      <<"2", ",", "1", "5">>,                    \* year 2, 15 hundredths
      <<"1", ",", "-", "3", ".", "5">> }         \* year 1, -3.5 hundredths

CO2Lines ==
    { <<"#", "c">>,                                          \* a comment row
      <<"2", ".", "9", ",", "1", ",", "1", ",", "1", ",", "3">>,   \* year 2.9
      <<"1", ",", "1", ",", "1", ",", "1", ",", "4", ".", "5">>,   \* year 1
      <<"1", ",", "1", ",", "1", ",", "1", ",", "-", "9">>,        \* reading <= 0
      <<"i", "n", "f", ",", "1", ",", "1", ",", "1", ",", "3">>,   \* infinite year
      <<"2", ",", "1", ",", "1">> }                          \* too few fields

RECURSIVE JoinLines(_)
JoinLines(ls) ==
    IF ls = <<>> THEN <<>>
    ELSE IF Len(ls) = 1 THEN ls[1]
    ELSE ls[1] \o <<"\n">> \o JoinLines(Tail(ls))

Bodies(lines, n) ==
    { JoinLines(ls) : ls \in UNION { [1..k -> lines] : k \in 0..n } }

FailureStatuses == {204, 404}

\* what requests.get can do: raise, or return a response
Outcomes(lines, n) ==
    { [kind |-> "raise", exc |-> "ConnectionError", status_code |-> 0, text |-> <<>>] }
    \cup { [kind |-> "response", exc |-> "none", status_code |-> c, text |-> <<>>] :
              c \in FailureStatuses }
    \cup { [kind |-> "response", exc |-> "none", status_code |-> 200, text |-> b] :
              b \in Bodies(lines, n) }

TempOutcomes == Outcomes(TempLines, MaxTempRows)
TempOutcomesDirect == Outcomes(TempLines, MaxParseRows)
CO2Outcomes == Outcomes(CO2Lines, MaxRows)

None == [None |-> TRUE]

\* an except clause that names the request's errors only
ExceptRequestErrors(exc) == exc \in {"ConnectionError", "Timeout"}

\* the bare except of both pipelines catches every exception
BareExcept(exc) == TRUE

-----------------------------------------------------------------------------
(* Temperature pipeline, src/data_loader.py 15-78                          *)

\* a row body that forgets the conversion from hundredths of a degree
TemperatureRowUnscaled(line) ==
    Bind(Split(line, ","), LAMBDA parts :
        IF Len(parts) >= 2
        THEN Bind(ParseInt(parts[1]), LAMBDA year :
                 IF year.exc # "none" THEN [exc |-> year.exc, append |-> FALSE]
                 ELSE Bind(ParseFloat(parts[2]), LAMBDA field :
                          IF field.exc # "none"
                          THEN [exc |-> field.exc, append |-> FALSE]
                          ELSE [exc |-> "none", append |-> TRUE, year |-> year.value,
                                anomaly |-> field.value]))
        ELSE [exc |-> "none", append |-> FALSE])

\* the body of the loop over data_lines: what one row does
TemperatureRow(line) ==
    Bind(Split(line, ","), LAMBDA parts :
        IF Len(parts) >= 2
        THEN Bind(ParseInt(parts[1]), LAMBDA year :
                 IF year.exc # "none" THEN [exc |-> year.exc, append |-> FALSE]
                 ELSE Bind(ParseFloat(parts[2]), LAMBDA field :
                          IF field.exc # "none"
                          THEN [exc |-> field.exc, append |-> FALSE]
                          ELSE [exc |-> "none", append |-> TRUE, year |-> year.value,
                                anomaly |-> TimesHundredth(field.value)]))
        ELSE [exc |-> "none", append |-> FALSE])

temperature_data_lines(text) ==
    SelectSeq(Split(text, "\n"),
              LAMBDA line : Strip(line) # <<>> /\ ~StartsWith(line, <<"Y", "e", "a", "r">>))

\* what the rows of a loop leave: except ValueError continues, any other
\* exception leaves the loop at the first row that raises it
LoopResult(rows) ==
    LET escaping == {i \in 1..Len(rows) : rows[i].exc \notin {"none", "ValueError"}}
    IN  IF escaping # {}
        THEN [exc |-> rows[CHOOSE i \in escaping : \A j \in escaping : i <= j].exc]
        ELSE [exc |-> "none",
              appended |-> SelectSeq(rows, LAMBDA r : r.exc = "none" /\ r.append)]

TemperatureLoop(data_lines) ==
    Bind(LoopResult(AsList([i \in 1..Len(data_lines) |-> TemperatureRow(data_lines[i])])),
         LAMBDA loop :
            IF loop.exc # "none" THEN [exc |-> loop.exc]
            ELSE [exc |-> "none",
                  frame |-> [Year |-> AsList([i \in 1..Len(loop.appended) |->
                                                 loop.appended[i].year]),
                             Temperature_Anomaly |->
                                 AsList([i \in 1..Len(loop.appended) |->
                                            loop.appended[i].anomaly])]])

ParseTemperature(text) ==
    Bind(temperature_data_lines(text), LAMBDA data_lines : TemperatureLoop(data_lines))

\* the try block: [exc] when it raised, [returned] when it returned a frame
TemperatureTry(outcome) ==
    IF outcome.kind = "raise" THEN [exc |-> outcome.exc, returned |-> FALSE]
    ELSE IF outcome.status_code = 200
    THEN Bind(ParseTemperature(outcome.text), LAMBDA parsed :
             IF parsed.exc = "none"
             THEN [exc |-> "none", returned |-> TRUE, frame |-> parsed.frame]
             ELSE [exc |-> parsed.exc, returned |-> FALSE])
    ELSE [exc |-> "none", returned |-> FALSE]

\* the code after the try statement: the table is synthesized
TemperatureFallback(g, printed) ==
    Bind(SynthesizeTemperature(g), LAMBDA synth :
        [exc |-> "none", frame |-> synth.frame, path |-> "synthetic",
         printed |-> printed, rng |-> synth.rng])

LoadNasaTemperatureData(g, s, outcome) ==
    Bind(TemperatureTry(outcome), LAMBDA try :
        IF try.returned
        THEN [exc |-> "none", frame |-> try.frame, path |-> "real",
              printed |-> <<>>, rng |-> s]
        ELSE IF try.exc # "none" /\ ~BareExcept(try.exc)
        THEN [exc |-> try.exc, frame |-> None, path |-> "raised",
              printed |-> <<>>, rng |-> s]
        ELSE TemperatureFallback(g, IF try.exc # "none" THEN <<"nasa_warning">> ELSE <<>>))

-----------------------------------------------------------------------------
(* CO2 pipeline, src/data_loader.py 80-128                                 *)

\* the body of the loop over data_lines[1:]: what one row does
CO2Row(line) ==
    Bind(Split(line, ","), LAMBDA parts :
        IF Len(parts) >= 5
        THEN Bind(ParseFloat(parts[1]), LAMBDA first :
                 IF first.exc # "none" THEN [exc |-> first.exc, append |-> FALSE]
                 ELSE Bind(TruncToInt(first.value), LAMBDA year :
                 IF year.exc # "none" THEN [exc |-> year.exc, append |-> FALSE]
                 ELSE Bind(ParseFloat(parts[5]), LAMBDA co2 :
                 IF co2.exc # "none" THEN [exc |-> co2.exc, append |-> FALSE]
                 ELSE IF IsPositive(co2.value)
                 THEN [exc |-> "none", append |-> TRUE, year |-> year.value,
                       co2 |-> co2.value]
                 ELSE [exc |-> "none", append |-> FALSE])))
        ELSE [exc |-> "none", append |-> FALSE])

co2_data_lines(text) ==
    SelectSeq(Split(text, "\n"),
              LAMBDA line : ~StartsWith(line, <<"#">>) /\ Strip(line) # <<>>)

\* data_lines[1:]
DropFirst(seq) == IF seq = <<>> THEN <<>> ELSE Tail(seq)

CO2Loop(data_lines) ==
    Bind(LoopResult(AsList([i \in 1..Len(data_lines) |-> CO2Row(data_lines[i])])),
         LAMBDA loop :
            IF loop.exc # "none" THEN [exc |-> loop.exc]
            ELSE [exc |-> "none",
                  frame |-> [Year |-> AsList([i \in 1..Len(loop.appended) |->
                                                 loop.appended[i].year]),
                             CO2_ppm |-> AsList([i \in 1..Len(loop.appended) |->
                                                    loop.appended[i].co2])]])

ParseCO2(text) ==
    Bind(co2_data_lines(text), LAMBDA data_lines : CO2Loop(DropFirst(data_lines)))

CO2Try(outcome) ==
    IF outcome.kind = "raise" THEN [exc |-> outcome.exc, returned |-> FALSE]
    ELSE IF outcome.status_code = 200
    THEN Bind(ParseCO2(outcome.text), LAMBDA parsed :
             IF parsed.exc = "none"
             THEN [exc |-> "none", returned |-> TRUE, frame |-> parsed.frame]
             ELSE [exc |-> parsed.exc, returned |-> FALSE])
    ELSE [exc |-> "none", returned |-> FALSE]

\* the code after the try statement: the table is synthesized
CO2Fallback(g, printed) ==
    Bind(SynthesizeCO2(g), LAMBDA synth :
        [exc |-> "none", frame |-> synth.frame, path |-> "synthetic",
         printed |-> printed, rng |-> synth.rng])

LoadCO2Data(g, s, outcome) ==
    Bind(CO2Try(outcome), LAMBDA try :
        IF try.returned
        THEN [exc |-> "none", frame |-> try.frame, path |-> "real",
              printed |-> <<>>, rng |-> s]
        ELSE IF try.exc # "none" /\ ~BareExcept(try.exc)
        THEN [exc |-> try.exc, frame |-> None, path |-> "raised",
              printed |-> <<>>, rng |-> s]
        ELSE CO2Fallback(g, IF try.exc # "none" THEN <<"co2_warning">> ELSE <<>>))

-----------------------------------------------------------------------------
(* get_all_data, src/data_loader.py 147-156, and direct calls              *)

Init ==
    /\ pc \in {"idle", "direct_temperature"}
    /\ rng \in 0..(NumEntropy - 1)
    /\ gen \in Generators
    /\ rng_at_call = rng
    /\ fetched = None
    /\ provenance = [temperature |-> "none", co2 |-> "none", extreme |-> "none"]
    /\ temperature_data = None
    /\ co2_data = None
    /\ extreme_data = None
    /\ result = None
    /\ raised = "none"
    /\ stdout = <<>>

\* get_all_data is entered
Call ==
    /\ pc = "idle"
    /\ pc' = "temperature"
    /\ stdout' = Append(stdout, "loading")
    /\ rng_at_call' = rng
    /\ UNCHANGED <<rng, gen, fetched, provenance, temperature_data, co2_data,
                   extreme_data, result, raised>>

\* load_nasa_temperature_data runs at position at; next is where the caller goes on
RunTemperature(at, next, outcomes) ==
    /\ pc = at
    /\ \E outcome \in outcomes :
        \E r \in {LoadNasaTemperatureData(gen, rng, outcome)} :
            /\ fetched' = outcome
            /\ rng' = r.rng
            /\ stdout' = stdout \o r.printed
            /\ provenance' = [provenance EXCEPT !.temperature = r.path]
            /\ IF r.exc = "none"
               THEN /\ temperature_data' = r.frame
                    /\ pc' = next
                    /\ raised' = raised
               ELSE /\ temperature_data' = temperature_data
                    /\ pc' = "raised"
                    /\ raised' = r.exc
    /\ UNCHANGED <<gen, rng_at_call, co2_data, extreme_data, result>>

LoadTemperature == RunTemperature("temperature", "co2", TempOutcomes)

LoadCO2 ==
    /\ pc = "co2"
    /\ \E outcome \in CO2Outcomes :
        \E r \in {LoadCO2Data(gen, rng, outcome)} :
            /\ fetched' = outcome
            /\ rng' = r.rng
            /\ stdout' = stdout \o r.printed
            /\ provenance' = [provenance EXCEPT !.co2 = r.path]
            /\ IF r.exc = "none"
               THEN /\ co2_data' = r.frame
                    /\ pc' = "extreme"
                    /\ raised' = raised
               ELSE /\ co2_data' = co2_data
                    /\ pc' = "raised"
                    /\ raised' = r.exc
    /\ UNCHANGED <<gen, rng_at_call, temperature_data, extreme_data, result>>

LoadExtreme ==
    /\ pc = "extreme"
    /\ \E r \in {LoadExtremeEventsData(gen, rng)} :
           /\ extreme_data' = r.frame
           /\ rng' = r.rng
           /\ provenance' = [provenance EXCEPT !.extreme = r.path]
    /\ pc' = "return"
    /\ UNCHANGED <<gen, rng_at_call, fetched, temperature_data, co2_data, result,
                   raised, stdout>>

Return ==
    /\ pc = "return"
    /\ stdout' = Append(stdout, "loaded")
    /\ result' = <<temperature_data, co2_data, extreme_data>>
    /\ pc' = "done"
    /\ UNCHANGED <<rng, gen, rng_at_call, fetched, provenance, temperature_data,
                   co2_data, extreme_data, raised>>

\* load_nasa_temperature_data called on its own
DirectTemperature ==
    RunTemperature("direct_temperature", "direct_done", TempOutcomesDirect)

Next ==
    \/ Call
    \/ LoadTemperature
    \/ LoadCO2
    \/ LoadExtreme
    \/ Return
    \/ DirectTemperature

Spec == Init /\ [][Next]_vars

-----------------------------------------------------------------------------
(* Reading the tables                                                      *)

Tables == <<temperature_data, co2_data, extreme_data>>

StrictlyAscending(seq) == \A i \in 1..(Len(seq) - 1) : seq[i] < seq[i + 1]

Printed(message) == \E i \in 1..Len(stdout) : stdout[i] = message

\* the value of a finite float as a whole number of 10^e, for e <= x.e
ValueAt(x, e) == x.m * Pow10(x.e - e)

\* the anomaly of a year of the synthesized temperature table, in thousandths
AnomalyOf(year) ==
    ValueAt(temperature_data.Temperature_Anomaly[
                CHOOSE i \in 1..Len(temperature_data.Year) : temperature_data.Year[i] = year],
            -3)

\* the step across the era boundary, in thousandths
BoundaryStep == AnomalyOf(era_boundary + 1) - AnomalyOf(era_boundary)

\* the rows of a body the temperature parser is to keep
WellFormedTemperatureRow(row) ==
    /\ Strip(row) # <<>>
    /\ ~StartsWith(row, <<"Y", "e", "a", "r">>)
    /\ Len(Split(row, ",")) >= 2
    /\ ParseInt(Split(row, ",")[1]).exc = "none"
    /\ ParseFloat(Split(row, ",")[2]).exc = "none"

\* record i of the table is the row: its year, and its field 1 times 0.01
RecordIsRow(table, i, row) ==
    LET field == ParseFloat(Split(row, ",")[2]).value
        anomaly == table.Temperature_Anomaly[i]
    IN  /\ table.Year[i] = ParseInt(Split(row, ",")[1]).value
        /\ anomaly.kind = field.kind
        /\ anomaly.m = field.m
        /\ field.kind = "finite" => anomaly.e = field.e - 2

-----------------------------------------------------------------------------
(* Claims                                                                  *)

\* C1: whatever the two fetches do (a 200 response with any body, another
\* status, an exception in the request or while parsing), get_all_data never
\* raises, always can go on until it returns, and returns the three tables in
\* the order temperature, CO2, extreme events.
C1_NeverRaisesReturnsThree ==
    /\ raised = "none"
    /\ pc # "raised"
    /\ pc \in {"idle", "temperature", "co2", "extreme", "return"} => ENABLED Next
    /\ pc = "done" =>
        /\ Len(result) = 3
        /\ "Temperature_Anomaly" \in DOMAIN result[1]
        /\ "CO2_ppm" \in DOMAIN result[2]
        /\ "Extreme_Events" \in DOMAIN result[3]
        /\ result = Tables

\* C1 witness: the CO2 response had status 200, parsing it raised (the table
\* is the synthesized one) and get_all_data still returned.
C1_Witness ==
    /\ pc = "done"
    /\ fetched.kind = "response"
    /\ fetched.status_code = 200
    /\ provenance.co2 = "synthetic"
    /\ Len(result) = 3

\* C2 as claimed: every table a pipeline returns is sorted strictly
\* ascending by Year (ascending, no year twice), whatever was fetched.
C2_SortedUniqueYears ==
    \A k \in 1..3 : Tables[k] # None => StrictlyAscending(Tables[k].Year)

\* C3 as claimed: every table get_all_data returns has at least one record,
\* also when a fetch succeeded with a body that holds no row that parses.
C3_TablesNonEmpty ==
    pc = "done" => \A k \in 1..3 : Len(result[k].Year) >= 1

\* C4 as claimed: the table of the synthesis path has the columns of the
\* table of the real-data path, for temperature and for CO2.
C4_SameSchema ==
    /\ provenance.temperature = "synthetic" =>
           DOMAIN temperature_data = DOMAIN ParseTemperature(<<>>).frame
    /\ provenance.co2 = "synthetic" =>
           DOMAIN co2_data = DOMAIN ParseCO2(<<>>).frame

\* C5 as claimed: a pipeline never falls back to synthesis without its warning
\* having been printed.
C5_FallbackWarns ==
    /\ provenance.temperature = "synthetic" => Printed("nasa_warning")
    /\ provenance.co2 = "synthetic" => Printed("co2_warning")

\* C6: when both fetches fail, get_all_data returns 144 temperature records
\* for the years 1880..2023, 66 CO2 records for 1958..2023 and 43 extreme-event
\* records for 1980..2022, each year once, in order, without gaps.
C6_SynthesizedRanges ==
    (pc = "done" /\ provenance.temperature = "synthetic" /\ provenance.co2 = "synthetic") =>
        /\ result[1].Year = [i \in 1..144 |-> 1879 + i]
        /\ result[2].Year = [i \in 1..66 |-> 1957 + i]
        /\ result[3].Year = [i \in 1..43 |-> 1979 + i]
        /\ \A k \in 1..3 : \A c \in DOMAIN result[k] :
               Len(result[k][c]) = Len(result[k].Year)

\* C6 witness: get_all_data returned after both requests failed.
C6_Witness ==
    /\ pc = "done"
    /\ provenance.temperature = "synthetic"
    /\ provenance.co2 = "synthetic"
    /\ fetched.kind = "raise"
    /\ Len(result[1].Year) = 144

\* C7: in every extreme-events table, each record's Economic_Loss_Billions is
\* exactly half of the Extreme_Events of the same record.
C7_LossIsHalfEvents ==
    extreme_data # None =>
        /\ Len(extreme_data.Economic_Loss_Billions) = Len(extreme_data.Extreme_Events)
        /\ \A i \in 1..Len(extreme_data.Extreme_Events) :
               /\ extreme_data.Economic_Loss_Billions[i].kind = "finite"
               /\ 2 * ValueAt(extreme_data.Economic_Loss_Billions[i], -4)
                      = ValueAt(extreme_data.Extreme_Events[i], -4)

\* C7 witness: an extreme-events table whose counts carry noise (two years'
\* counts differ by other than the trend), so the loss follows a noisy count.
C7_Witness ==
    /\ extreme_data # None
    /\ Len(extreme_data.Extreme_Events) = 43
    /\ \E i \in 1..42 :
           ValueAt(extreme_data.Extreme_Events[i + 1], -3)
               - ValueAt(extreme_data.Extreme_Events[i], -3) # event_slope

\* C8 as claimed: the extreme-events table does not depend on what the
\* temperature and CO2 fetches did: it is the table the pipeline produces from
\* the generator state get_all_data was called in, as in the run where both
\* fetches succeed.
C8_ExtremeIndependentOfFetches ==
    pc = "done" => result[3] = LoadExtremeEventsData(gen, rng_at_call).frame

\* C9: on a successful temperature fetch the table holds exactly one record
\* for each row that is not blank, not the header, has at least 2 fields, an
\* integer field 0 and a numeric field 1 (the anomaly is field 1 times 0.01),
\* in row order, and nothing else.
C9_ExactlyWellFormedRows ==
    (pc \in {"co2", "direct_done"} /\ fetched.kind = "response" /\ fetched.status_code = 200) =>
        LET kept == SelectSeq(Split(fetched.text, "\n"), WellFormedTemperatureRow)
        IN  /\ provenance.temperature = "real"
            /\ DOMAIN temperature_data = {"Year", "Temperature_Anomaly"}
            /\ Len(temperature_data.Year) = Len(kept)
            /\ Len(temperature_data.Temperature_Anomaly) = Len(kept)
            /\ \A i \in 1..Len(kept) : RecordIsRow(temperature_data, i, kept[i])

\* C9 witness: a body of a header row, a row with a non-numeric field and two
\* well-formed rows gave the two records of the well-formed rows.
C9_Witness ==
    /\ pc = "direct_done"
    /\ fetched.kind = "response"
    /\ fetched.status_code = 200
    /\ fetched.text = JoinLines(<< <<"Y", "e", "a", "r", ",", "J">>,
                                   <<"2", ",", "x">>,
                                   <<"2", ",", "1", "5">>,
                                   <<"1", ",", "-", "3", ".", "5">> >>)
    /\ temperature_data.Year = <<2, 1>>
    /\ temperature_data.Temperature_Anomaly = <<Finite(15, -2), Finite(-35, -3)>>

\* C10 as claimed: in the synthesized temperature table the value of 1951
\* minus the value of 1950 is the recent trend's first increment plus the 1951
\* noise term (the increment read as the trend's yearly step, or as the
\* trend's first value).
C10_StepIsIncrementPlusNoise ==
    provenance.temperature = "synthetic" =>
        \E increment \in {recent_slope, recent_warming[1]} :
            BoundaryStep = increment + recent_noise(gen)[1]

\* C10 amended: in the synthesized temperature table the value of 1951 minus
\* the value of 1950 is exactly the 1951 noise term: the shift takes the
\* recent trend's first value out again, so with zero noise the two years have
\* the same value.
C10_StepIsNoiseOnly ==
    provenance.temperature = "synthetic" =>
        BoundaryStep = recent_noise(gen)[1]

\* C10 witness: a synthesized temperature table whose 1951 noise term is not
\* zero.
C10_Witness ==
    /\ provenance.temperature = "synthetic"
    /\ recent_noise(gen)[1] # 0
    /\ BoundaryStep # 0

====
